---- MODULE Spec2Model ----
(***************************************************************************)
(* AI Targhe: licence plate recognition add-on.                            *)
(*                                                                         *)
(* Part 1 models _recognize_plate_tesseract (plate_recognizer.py): the     *)
(* crop of one bounding box, the three preprocessing strategies, the OCR   *)
(* call of each strategy and the selection of the best candidate.          *)
(*                                                                         *)
(* Numbers: an OCR confidence is kept in hundredths (the "conf" column of  *)
(* the OCR table, 0..100) and a confidence computed by the code is the     *)
(* exact fraction [n |-> numerator, d |-> denominator] of hundredths, so   *)
(* that the mean of the fragment confidences is compared exactly.          *)
(***************************************************************************)
EXTENDS Integers, Sequences, FiniteSets, TLC

\* ------------------------------------------------------------------ bounds
MaxFrags == 2          \* rows of one OCR table
MaxBoxes == 2          \* boxes kept by NMSBoxes in one frame
MaxTime == 3           \* the clock stops here
ScanInterval == 1      \* config.scan_interval, in sleep increments
TargetTimeout == 1     \* config.target_detected_timeout, in sleep increments
FrameW == 12           \* width of the frame handed to the recognizer
FrameH == 8            \* height of that frame
MaxRows == 2           \* rows of the raw output of the network
SubPx == 8             \* units per pixel of the letterboxed image
MaxChunks == 3         \* chunks of one stream
FindLimit == 6         \* bytes buffered in search of the headers' end before
                       \* the buffer is cut (8192 in the code)
FindKeep == 4          \* bytes kept by that cut (2048 in the code)
BodyLimit == 3         \* bytes of an unfinished body allowed (2 MiB in the code)

\* --------------------------------------------------------------- constants
OCR_CONFIDENCE_THRESHOLD == 30      \* 0.3, in hundredths

\* Python's None, for a text
NoneText == <<"None">>

\* the cell "-1" of the conf column: a row that carries no confidence
NoConf == -1

\* ------------------------------------------------------------- characters
UpperLetters == {"A", "B", "C", "D", "W", "X", "Y", "Z"}
Digits == {"0", "1", "2", "3", "7", "8", "9"}
Whitespace == {" "}

\* str.upper(), one character
UpperChar(c) ==
    CASE c = "a" -> "A" [] c = "b" -> "B" [] c = "c" -> "C" [] c = "d" -> "D"
      [] c = "w" -> "W" [] c = "x" -> "X" [] c = "y" -> "Y" [] c = "z" -> "Z"
      [] OTHER -> c

\* str.upper()
Upper(t) == [i \in 1..Len(t) |-> UpperChar(t[i])]

\* str.replace(c, "")
RECURSIVE RemoveChar(_, _)
RemoveChar(t, c) ==
    IF t = <<>> THEN <<>>
    ELSE IF Head(t) = c THEN RemoveChar(Tail(t), c)
    ELSE <<Head(t)>> \o RemoveChar(Tail(t), c)

\* str.strip(): leading and trailing whitespace removed
RECURSIVE LStrip(_)
LStrip(t) ==
    IF t /= <<>> /\ Head(t) \in Whitespace THEN LStrip(Tail(t)) ELSE t

RECURSIVE RStrip(_)
RStrip(t) ==
    IF t /= <<>> /\ t[Len(t)] \in Whitespace
    THEN RStrip(SubSeq(t, 1, Len(t) - 1)) ELSE t

Strip(t) == RStrip(LStrip(t))

\* ITALIAN_PLATE_REGEX.match(t): ^[A-Z]{2}\d{3}[A-Z]{2}$ . Python's "$" also
\* matches before one final line feed; no cell of the OCR table holds one
\* (the table is split into rows at line feeds), so the texts here have none.
\* (the same without the "$": a variant the checks must tell apart)
RegexMatchNoAnchor(t) ==
    /\ Len(t) >= 7
    /\ t[1] \in UpperLetters /\ t[2] \in UpperLetters
    /\ t[3] \in Digits /\ t[4] \in Digits /\ t[5] \in Digits
    /\ t[6] \in UpperLetters /\ t[7] \in UpperLetters
RegexMatch(t) ==
    /\ Len(t) = 7
    /\ t[1] \in UpperLetters /\ t[2] \in UpperLetters
    /\ t[3] \in Digits /\ t[4] \in Digits /\ t[5] \in Digits
    /\ t[6] \in UpperLetters /\ t[7] \in UpperLetters

\* ------------------------------------------------------------- fractions
Frac(n, d) == [n |-> n, d |-> d]
FracGT(a, b) == a.n * b.d > b.n * a.d
FracGE(a, b) == a.n * b.d >= b.n * a.d
FracEQ(a, b) == a.n * b.d = b.n * a.d

\* ---------------------------------------------------------------- state
VARIABLES
    frame_w, frame_h,   \* frame.shape[:2] of the frame being recognised
    box,                \* <<x1, y1, x2, y2>>: the arguments of the call
    rpc,                \* position in _recognize_plate_tesseract
    strat,              \* index in preprocessed of the strategy at hand
    data,               \* the OCR table of that strategy: rows [text, conf]
    best_text,          \* best_text
    best_conf,          \* best_conf
    best_src,           \* which assignment last wrote best_text
    result,             \* the pair returned: [text, conf]
    ocr_log,            \* one entry per call of image_to_data, in order
    \* main.py, PlateRecognizer.detect and HAClient
    pc,                 \* position in main
    running,            \* the global running
    options_exists,     \* /data/options.json is there
    token_present,      \* SUPERVISOR_TOKEN is set
    weights,            \* models/best.onnx: "missing", "unreadable" or "ok"
    tesseract_ok,       \* the tesseract engine can be run
    now,                \* time.time(), in sleep increments
    loop_start,         \* loop_start
    end_time,           \* end_time
    jpeg,               \* jpeg_bytes: "none", "corrupt" or "valid"
    cands,              \* detect: the boxes kept by NMSBoxes, mapped back
    di,                 \* detect: position in indices
    plates,             \* detect: plates; main: the list being reported
    ri,                 \* main: position in plates
    target_off_at,      \* HAClient._target_off_at
    ha_last,            \* state held by HA for sensor.ai_targhe_last_plate
    ha_binary,          \* state held by HA for the binary sensor
    \* PlateRecognizer.detect, lines 126-165
    out,                \* rows: the rows of the raw output of the network
    boxes_xywh,         \* boxes_xywh
    scores,             \* scores
    xyxy_640,           \* xyxy_640
    indices,            \* indices, as NMSBoxes returns them
    \* what the HA client has sent
    http_log,           \* get_camera_snapshot: the requests of the call
    ha_calls,           \* the POSTs of the last call of a HAClient method
    pending_since,      \* time of the target report not yet answered by
                        \* an "off" update; -1 when there is none
    \* _first_jpeg_from_mjpeg_stream
    ctype,              \* stream.headers["Content-Type"]
    chunks,             \* the chunks iter_content yields, in order
    ci,                 \* how many of them the loop has taken
    late,               \* time.monotonic() > deadline
    buf,                \* buf
    state,              \* state
    content_length,     \* content_length
    fpc,                \* position in the function
    fret                \* the value returned

rvars == <<frame_w, frame_h, box, rpc, strat, data, best_text, best_conf,
           best_src, result, ocr_log>>

nvars == <<out, boxes_xywh, scores, xyxy_640, indices>>

gvars == <<http_log, ha_calls, pending_since>>

svars == <<ctype, chunks, ci, late, buf, state, content_length, fpc, fret>>

xvars == <<nvars, gvars, svars>>

mvars == <<pc, running, options_exists, token_present, weights, tesseract_ok,
           now, loop_start, end_time, jpeg, cands, di, plates, ri,
           target_off_at, ha_last, ha_binary, xvars>>

\* the variables of the parts that are not running
XIdle ==
    /\ out = <<>> /\ boxes_xywh = <<>> /\ scores = <<>>
    /\ xyxy_640 = <<>> /\ indices = <<>>
    /\ http_log = <<>> /\ ha_calls = <<>> /\ pending_since = -1
    /\ ctype = "none" /\ chunks = <<>> /\ ci = 0 /\ late = FALSE
    /\ buf = <<>> /\ state = "find_boundary" /\ content_length = 0
    /\ fpc = "idle" /\ fret = NoneText

vars == <<rvars, mvars>>

\* ------------------------------------------------------ the crop (47-57)
\* int(n * num/den) for the margins: truncation towards zero
TruncMul(n, num, den) ==
    IF n >= 0 THEN (n * num) \div den ELSE -(((-n) * num) \div den)

Max(a, b) == IF a >= b THEN a ELSE b
Min(a, b) == IF a <= b THEN a ELSE b

\* len(range(n)[start:stop]): the length of a slice of an axis of length n
SliceLen(start, stop, n) ==
    LET norm(i) == IF i < 0 THEN Max(0, i + n) ELSE Min(i, n)
    IN Max(0, norm(stop) - norm(start))

\* the slice bounds of plate_roi: <<x1m, y1m, x2m, y2m>>
RoiBounds(b, w_frame, h_frame) ==
    LET margin_x == TruncMul(b[3] - b[1], 10, 100)
        margin_y == TruncMul(b[4] - b[2], 15, 100)
    IN << Max(0, b[1] - margin_x), Max(0, b[2] - margin_y),
          Min(w_frame, b[3] + margin_x), Min(h_frame, b[4] + margin_y) >>

\* (variant: the width alone)
RoiSizeWidthOnly(b, w_frame, h_frame) ==
    LET m == RoiBounds(b, w_frame, h_frame) IN SliceLen(m[1], m[3], w_frame)
\* plate_roi.size (the three channels left out)
RoiSize(b, w_frame, h_frame) ==
    LET m == RoiBounds(b, w_frame, h_frame)
    IN SliceLen(m[2], m[4], h_frame) * SliceLen(m[1], m[3], w_frame)

\* (variant: the grayscale image left out)
PreprocessedNoGray == <<"otsu", "adaptive">>
\* lines 69-76: the list preprocessed, each image named by the way it was made
Preprocessed == <<"otsu", "adaptive", "gray">>

NoReading == [text |-> NoneText, conf |-> Frac(0, 1)]

\* Python's truth value of a text
Truthy(t) == t /= NoneText /\ t /= <<>>

\* ------------------------------------------- candidates of one OCR table
\* line 86: the text of row c as a fragment on its own
FragText(c) == RemoveChar(RemoveChar(Upper(Strip(c.text)), " "), "-")

\* line 89: the confidence of row c
FragConf(c) == IF c.conf /= NoConf THEN Frac(c.conf, 1) ELSE Frac(0, 1)

\* lines 91-92: whether conf replaces the best confidence so far
FragBeats(conf, best) == FracGT(conf, best)

\* lines 85-94: the loop over the rows from row i on; b = [text, conf, src]
RECURSIVE FragmentLoop(_, _, _)
FragmentLoop(d, i, b) ==
    IF i > Len(d) THEN b
    ELSE LET text == FragText(d[i])
             conf == FragConf(d[i])
         IN IF /\ text /= <<>>
               /\ FracGE(conf, Frac(OCR_CONFIDENCE_THRESHOLD, 1))
               /\ RegexMatch(text)
               /\ FragBeats(conf, b.conf)
            THEN FragmentLoop(d, i + 1,
                     [text |-> text, conf |-> conf, src |-> "fragment"])
            ELSE FragmentLoop(d, i + 1, b)

\* line 97: the rows joined in order
RECURSIVE FullText(_)
FullText(d) ==
    IF d = <<>> THEN <<>>
    ELSE RemoveChar(RemoveChar(Upper(Head(d).text), " "), "-")
             \o FullText(Tail(d))

RECURSIVE SumConf(_)
SumConf(d) ==
    IF d = <<>> THEN 0
    ELSE (IF Head(d).conf /= NoConf THEN Head(d).conf ELSE 0)
             + SumConf(Tail(d))

CountConf(d) == Cardinality({i \in 1..Len(d) : d[i].conf /= NoConf})

\* (variant: the mean over every row, "-1" rows counted as 0)
MeanConfOverAllRows(d) ==
    IF d = <<>> THEN Frac(0, 1) ELSE Frac(SumConf(d), Len(d))
\* line 99: np.mean([...] or [0]) over the rows whose conf is not "-1"
MeanConf(d) ==
    IF CountConf(d) = 0 THEN Frac(0, 1) ELSE Frac(SumConf(d), CountConf(d))

\* (variant: the mean also replaces an equal confidence)
FullBeatsOnTie(avg, best) == FracGE(avg, best)
\* line 100: whether the mean replaces the best confidence so far
FullBeats(avg, best) == FracGT(avg, best)

\* lines 96-102: the full line, after the loop over the rows
FullLine(d, b) ==
    LET full == FullText(d)
    IN IF full /= <<>> /\ RegexMatch(full) /\ FullBeats(MeanConf(d), b.conf)
       THEN [text |-> full, conf |-> MeanConf(d), src |-> "full"]
       ELSE b

\* lines 83-102: one strategy's table worked through, from the best so far
EvalStrategy(d, b) == FullLine(d, FragmentLoop(d, 1, b))

\* ----------------------------------------------- what an OCR table holds
\* The vocabulary of the plate grammar, written out on its own: the
\* candidates of a table, those matching the grammar, those accepted.
AsciiUpper == {"A", "B", "C", "D", "E", "F", "G", "H", "I", "J", "K", "L", "M",
               "N", "O", "P", "Q", "R", "S", "T", "U", "V", "W", "X", "Y", "Z"}
AsciiDigit == {"0", "1", "2", "3", "4", "5", "6", "7", "8", "9"}

PlateGrammar(t) ==
    /\ Len(t) = 7
    /\ \A i \in {1, 2, 6, 7} : t[i] \in AsciiUpper
    /\ \A i \in {3, 4, 5} : t[i] \in AsciiDigit

Normalize(t) == RemoveChar(RemoveChar(Upper(t), " "), "-")

RECURSIVE Concat(_)
Concat(d) == IF d = <<>> THEN <<>> ELSE Normalize(Head(d).text) \o Concat(Tail(d))

ConfRows(d) == {i \in 1..Len(d) : d[i].conf /= NoConf}

RECURSIVE SumOver(_, _)
SumOver(d, I) ==
    IF I = {} THEN 0
    ELSE LET i == CHOOSE j \in I : TRUE IN d[i].conf + SumOver(d, I \ {i})

Mean(d) ==
    IF ConfRows(d) = {} THEN Frac(0, 1)
    ELSE Frac(SumOver(d, ConfRows(d)), Cardinality(ConfRows(d)))

FragmentCandidates(d) ==
    {[text |-> Normalize(d[i].text),
      conf |-> IF d[i].conf = NoConf THEN Frac(0, 1) ELSE Frac(d[i].conf, 1)] :
        i \in {j \in 1..Len(d) : Normalize(d[j].text) /= <<>>}}

ConcatCandidate(d) == [text |-> Concat(d), conf |-> Mean(d)]

Candidates(d) == FragmentCandidates(d) \cup {ConcatCandidate(d)}

GrammarCandidates(d) == {c \in Candidates(d) : PlateGrammar(c.text)}

Accepted(c) ==
    PlateGrammar(c.text) /\ FracGE(c.conf, Frac(OCR_CONFIDENCE_THRESHOLD, 1))

AcceptedCandidates(d) == {c \in Candidates(d) : Accepted(c)}

\* ------------------------------------------------ the OCR tables drawn
TxtPlate == <<"A", "B", "1", "2", "3", "C", "D">>
TxtPlateRaw == <<"x", "y", "-", "9", "8", "7", " ", "z", "w">>
TxtHead == <<"A", "B">>
TxtTail == <<"1", "2", "3", "C", "D">>
TxtShort == <<"A", "B", "1", "2", "3", "C">>

OcrTexts == {<<>>, TxtPlate, TxtPlateRaw, TxtHead, TxtTail}
OcrConfs == {NoConf, 10, 90, 95}
OcrRows == [text : OcrTexts, conf : OcrConfs]
OcrTables == UNION {[1..k -> OcrRows] : k \in 0..MaxFrags}

\* ------------------------------- _recognize_plate_tesseract, step by step
\* lines 47-79: the crop, and the start of the loop over the strategies
Crop ==
    /\ rpc = "crop"
    /\ IF RoiSize(box, frame_w, frame_h) = 0
       THEN /\ rpc' = "done"
            /\ result' = NoReading
            /\ UNCHANGED <<strat, best_text, best_conf, best_src>>
       ELSE /\ rpc' = "ocr"
            /\ strat' = 1
            /\ best_text' = NoneText
            /\ best_conf' = Frac(0, 1)
            /\ best_src' = "none"
            /\ UNCHANGED result
    /\ UNCHANGED <<frame_w, frame_h, box, data, ocr_log>>
    /\ UNCHANGED mvars

\* line 82: image_to_data returns the table of the strategy at hand
OcrCall(Tables) ==
    /\ rpc = "ocr"
    /\ tesseract_ok
    /\ \E d \in Tables :
        /\ data' = d
        /\ ocr_log' = Append(ocr_log,
               [strategy |-> Preprocessed[strat],
                grammar |-> GrammarCandidates(d) /= {},
                accepted |-> AcceptedCandidates(d) /= {}])
    /\ rpc' = "eval"
    /\ UNCHANGED <<frame_w, frame_h, box, strat, best_text, best_conf,
                   best_src, result>>
    /\ UNCHANGED mvars

\* line 82: image_to_data raises (no engine, or the engine fails)
OcrRaise ==
    /\ rpc = "ocr"
    /\ rpc' = "raised"
    /\ UNCHANGED <<frame_w, frame_h, box, strat, data, best_text, best_conf,
                   best_src, result, ocr_log>>
    /\ UNCHANGED mvars

\* lines 83-107: the table worked through; return, or the next strategy
Evaluate ==
    /\ rpc = "eval"
    /\ LET b == EvalStrategy(data,
                    [text |-> best_text, conf |-> best_conf, src |-> best_src])
       IN /\ best_text' = b.text
          /\ best_conf' = b.conf
          /\ best_src' = b.src
          /\ IF Truthy(b.text)
             THEN /\ rpc' = "done"
                  /\ result' = [text |-> b.text, conf |-> b.conf]
                  /\ UNCHANGED <<strat, data>>
             ELSE IF strat < Len(Preprocessed)
             THEN /\ rpc' = "ocr"
                  /\ strat' = strat + 1
                  /\ data' = <<>>
                  /\ UNCHANGED result
             ELSE /\ rpc' = "done"
                  /\ result' = NoReading
                  /\ data' = <<>>
                  /\ UNCHANGED strat
    /\ UNCHANGED <<frame_w, frame_h, box, ocr_log>>
    /\ UNCHANGED mvars

\* a sensor state before any plate
Unknown == <<"unknown">>

\* ----------------------------- the recognizer on its own, any box and table
\* boxes as detect clamps them: every corner on the frame, one box with a
\* crop, the others with x1 >= x2 or y1 >= y2
BoxXs == {0, 1, FrameW}
BoxYs == {0, 1, FrameH}
Boxes == {b \in {<<x1, y1, x2, y2>> : x1 \in BoxXs, y1 \in BoxYs,
                                      x2 \in BoxXs, y2 \in BoxYs} :
             b[1] >= b[3] \/ b[2] >= b[4] \/ b = <<1, 1, FrameW, FrameH>>}

InitRecog ==
    /\ frame_w = FrameW /\ frame_h = FrameH
    /\ box \in Boxes
    /\ rpc = "crop"
    /\ strat = 1
    /\ data = <<>>
    /\ best_text = NoneText
    /\ best_conf = Frac(0, 1)
    /\ best_src = "none"
    /\ result = NoReading
    /\ ocr_log = <<>>
    /\ pc = "recognize"
    /\ running = TRUE
    /\ options_exists = TRUE /\ token_present = TRUE
    /\ weights = "ok" /\ tesseract_ok = TRUE
    /\ now = 0 /\ loop_start = 0 /\ end_time = 0
    /\ jpeg = "valid"
    /\ cands = <<>> /\ di = 1 /\ plates = <<>> /\ ri = 1
    /\ target_off_at = 0
    /\ ha_last = Unknown /\ ha_binary = "off"
    /\ XIdle

NextRecog == Crop \/ OcrCall(OcrTables) \/ OcrRaise \/ Evaluate

SpecRecog == InitRecog /\ [][NextRecog]_vars

\* ------------------------------------------------------ configuration
\* config.py 25-28: target_plates, normalised as the options are loaded
ConfiguredPlates == {<<"a", "b", "-", "1", "2", "3", " ", "c", "d">>}
TargetPlates == {RemoveChar(RemoveChar(Upper(p), " "), "-") : p \in ConfiguredPlates}

\* ------------------------------------------------- PlateRecognizer.detect
Row(t, c) == [text |-> t, conf |-> c]

\* the OCR tables drawn in the main loop
MainTables ==
    { <<>>,
      <<Row(TxtPlate, 90)>>,
      <<Row(TxtPlateRaw, 90)>>,
      <<Row(TxtHead, 90), Row(TxtTail, 95)>>,
      <<Row(TxtPlate, 90), Row(TxtHead, 95)>>,
      <<Row(TxtShort, 99)>> }

\* the boxes kept by NMSBoxes, mapped back and clamped (lines 126-178), each
\* with its score in hundredths: one box with a crop, one clamped to x1 = x2
DetBoxes == { [bbox |-> <<1, 1, FrameW, FrameH>>, score |-> 92],
              [bbox |-> <<FrameW, 0, FrameW, FrameH>>, score |-> 92] }
CandLists == UNION {[1..k -> DetBoxes] : k \in 0..MaxBoxes}

\* round(x, 3) of the fraction c of hundredths, in thousandths
Round3(c) ==
    LET q == (10 * c.n) \div c.d
        r == (10 * c.n) % c.d
    IN IF 2 * r > c.d \/ (2 * r = c.d /\ q % 2 = 1) THEN q + 1 ELSE q

\* lines 182-187: the record of one plate
PlateRecord(res, cand) ==
    [plate |-> res.text,
     confidence |-> Round3(res.conf),
     yolo_confidence |-> 10 * cand.score,
     bbox |-> cand.bbox]

\* no call of _recognize_plate_tesseract is under way: its locals are gone
RecognizerIdle ==
    /\ box' = <<0, 0, 0, 0>>
    /\ rpc' = "idle"
    /\ strat' = 1
    /\ data' = <<>>
    /\ best_text' = NoneText
    /\ best_conf' = Frac(0, 1)
    /\ best_src' = "none"
    /\ result' = NoReading
    /\ ocr_log' = <<>>
    /\ UNCHANGED <<frame_w, frame_h>>

\* line 180: the call of _recognize_plate_tesseract on box b
CallRecognizer(b) ==
    /\ box' = b
    /\ rpc' = "crop"
    /\ strat' = 1
    /\ data' = <<>>
    /\ best_text' = NoneText
    /\ best_conf' = Frac(0, 1)
    /\ best_src' = "none"
    /\ result' = NoReading
    /\ ocr_log' = <<>>
    /\ UNCHANGED <<frame_w, frame_h>>

\* lines 126-180: inference, filtering, NMS; return [] or the first box
DetectInfer ==
    /\ pc = "detect" /\ di = 0
    /\ \E cs \in CandLists :
        IF cs = <<>>
        THEN /\ pc' = "report"
             /\ plates' = <<>>
             /\ ri' = 1
             /\ UNCHANGED <<cands, di, rvars>>
        ELSE /\ cands' = cs
             /\ di' = 1
             /\ plates' = <<>>
             /\ CallRecognizer(cs[1].bbox)
             /\ UNCHANGED <<pc, ri>>
    /\ UNCHANGED <<running, options_exists, token_present, weights,
                   tesseract_ok, now, loop_start, end_time, jpeg,
                   target_off_at, ha_last, ha_binary>>
    /\ UNCHANGED xvars

\* lines 180-192: the reading of one box taken; the next box, or return
DetectCollect ==
    /\ pc = "detect" /\ rpc = "done"
    /\ plates' = IF Truthy(result.text)
                 THEN Append(plates, PlateRecord(result, cands[di]))
                 ELSE plates
    /\ IF di < Len(cands)
       THEN /\ di' = di + 1
            /\ CallRecognizer(cands[di + 1].bbox)
            /\ UNCHANGED <<pc, ri, cands>>
       ELSE /\ pc' = "report"
            /\ ri' = 1
            /\ cands' = <<>>
            /\ di' = 0
            /\ RecognizerIdle
    /\ UNCHANGED <<running, options_exists, token_present, weights,
                   tesseract_ok, now, loop_start, end_time, jpeg,
                   target_off_at, ha_last, ha_binary>>
    /\ UNCHANGED xvars

\* the exception of image_to_data leaves detect (no handler in 167-192) and
\* main (no handler in 83-84): the process ends
Propagate ==
    /\ pc = "detect" /\ rpc = "raised"
    /\ pc' = "crashed"
    /\ UNCHANGED <<running, options_exists, token_present, weights,
                   tesseract_ok, now, loop_start, end_time, jpeg, cands, di,
                   plates, ri, target_off_at, ha_last, ha_binary>>
    /\ UNCHANGED rvars
    /\ UNCHANGED xvars

\* ------------------------------------ detect: from the frame to the boxes
\* coordinates of the letterboxed image are kept in 1/SubPx of a pixel and
\* scores in hundredths
INPUT_SIZE == 640
ConfidenceThreshold == 50       \* config.confidence_threshold, default 0.5

\* int(round(n / d)) for n >= 0, d > 0: halves go to the even neighbour
RoundDiv(n, d) ==
    LET q == n \div d
        r == n % d
    IN IF 2 * r > d \/ (2 * r = d /\ q % 2 = 1) THEN q + 1 ELSE q

\* int(n / d) for d > 0: truncation towards zero
TruncDiv(n, d) == IF n >= 0 THEN n \div d ELSE -((-n) \div d)

\* _letterbox (22-33): scale = min(640/h, 640/w) = 640/max(h, w)
Letterbox(w, h) ==
    LET m == Max(w, h)
        new_w == RoundDiv(w * INPUT_SIZE, m)
        new_h == RoundDiv(h * INPUT_SIZE, m)
    IN [scale |-> Frac(INPUT_SIZE, m),
        pad_x |-> (INPUT_SIZE - new_w) \div 2,
        pad_y |-> (INPUT_SIZE - new_h) \div 2,
        orig_w |-> w, orig_h |-> h]

\* _xywh2xyxy (36-42); w and h are even numbers of units here, w/2 is exact
Xywh2xyxy(x, y, w, h) ==
    <<x - (w \div 2), y - (h \div 2), x + (w \div 2), y + (h \div 2)>>

\* line 143: *xywh, score = row
RowXywh(row) == SubSeq(row, 1, Len(row) - 1)
RowScore(row) == row[Len(row)]

\* (variant: the threshold not applied)
KeepsAnyRow(row, thr) == TRUE
\* lines 144-145: the row is not skipped
KeepsRow(row, thr) == ~(RowScore(row) < thr)

\* lines 140-147: the rows kept, in order
RECURSIVE FilterRows(_, _)
FilterRows(rows, thr) ==
    IF rows = <<>> THEN <<>>
    ELSE IF KeepsRow(Head(rows), thr)
         THEN <<Head(rows)>> \o FilterRows(Tail(rows), thr)
         ELSE FilterRows(Tail(rows), thr)

\* line 159: the box [x, y, w, h] handed to NMSBoxes
CornerForm(b) == <<b[1], b[2], b[3] - b[1], b[4] - b[2]>>

\* the area two [x, y, w, h] boxes share
Intersection(a, b) ==
    Max(0, Min(a[1] + a[3], b[1] + b[3]) - Max(a[1], b[1]))
      * Max(0, Min(a[2] + a[4], b[2] + b[4]) - Max(a[2], b[2]))

\* NMSBoxes, nms_threshold 0.45: IoU(a, b) > 0.45 (0.45 = 9/20)
Overlaps(a, b) ==
    LET i == Intersection(a, b)
        u == a[3] * a[4] + b[3] * b[4] - i
    IN 20 * i > 9 * u

\* NMSBoxes: the indices in I by falling score, equal scores in list order
RECURSIVE ByScore(_, _)
ByScore(scs, I) ==
    IF I = {} THEN <<>>
    ELSE LET i == CHOOSE j \in I :
                    \A k \in I : scs[j] > scs[k] \/ (scs[j] = scs[k] /\ j <= k)
         IN <<i>> \o ByScore(scs, I \ {i})

\* NMSBoxes: a box is kept when it overlaps none of those kept before it
RECURSIVE Greedy(_, _, _)
Greedy(bxs, order, kept) ==
    IF order = <<>> THEN kept
    ELSE LET i == Head(order)
         IN IF \A k \in 1..Len(kept) : ~Overlaps(bxs[kept[k]], bxs[i])
            THEN Greedy(bxs, Tail(order), Append(kept, i))
            ELSE Greedy(bxs, Tail(order), kept)

\* (variant: positions in the score order returned in place of indices)
NMSBoxesByRank(bxs, scs, score_threshold) ==
    LET order == ByScore(scs, {i \in 1..Len(scs) : scs[i] > score_threshold})
        kept == Greedy(bxs, order, <<>>)
    IN [k \in 1..Len(kept) |->
           CHOOSE r \in 1..Len(order) : order[r] = kept[k]]
\* lines 158-165: cv2.dnn.NMSBoxes(boxes, scores, score_threshold, 0.45);
\* it drops the scores not above score_threshold, then suppresses greedily
NMSBoxes(bxs, scs, score_threshold) ==
    Greedy(bxs, ByScore(scs, {i \in 1..Len(scs) : scs[i] > score_threshold}),
           <<>>)

\* (variant: the padding not taken off)
MapBackNoPad(v, pad, scale) == TruncDiv(v * scale.d, SubPx * scale.n)
\* lines 171-174: int((v - pad) / scale), v in units
MapBack(v, pad, scale) ==
    TruncDiv((v - pad * SubPx) * scale.d, SubPx * scale.n)

\* (variant: no clamping)
ClampNot(v, hi) == v
\* lines 175-178: max(0, min(v, hi))
Clamp(v, hi) == Max(0, Min(v, hi))

\* lines 169-178: one box of xyxy_640 in the pixels of the frame
MapBox(b, lb) ==
    << Clamp(MapBack(b[1], lb.pad_x, lb.scale), lb.orig_w),
       Clamp(MapBack(b[2], lb.pad_y, lb.scale), lb.orig_h),
       Clamp(MapBack(b[3], lb.pad_x, lb.scale), lb.orig_w),
       Clamp(MapBack(b[4], lb.pad_y, lb.scale), lb.orig_h) >>

\* ------------------------------------------------------------ HAClient
\* update_sensor (159-174): the state HA holds after the POST, which is
\* delivered or fails (the request error is logged and swallowed)
Delivered(old, new) == {old, new}

\* one POST: the path under SUPERVISOR_URL and the state (or plate) sent
Post(url, sent) == [url |-> url, state |-> sent]
LastPlateUrl == "states/sensor.ai_targhe_last_plate"
BinaryUrl == "states/binary_sensor.ai_targhe_target_detected"
EventUrl == "events/ai_targhe_plate_detected"

\* ---------------------------------------------------------------- main
hvars == <<target_off_at, ha_last, ha_binary>>
evars == <<options_exists, token_present, weights, tesseract_ok>>
dvars == <<cands, di, plates, ri>>

\* line 37 (config.py 13-18): the options are loaded, or main ends
LoadConfig ==
    /\ pc = "config"
    /\ pc' = IF options_exists THEN "ha_client" ELSE "crashed"
    /\ UNCHANGED <<running, now, loop_start, end_time, jpeg>>
    /\ UNCHANGED <<evars, dvars, hvars, rvars>>
    /\ UNCHANGED xvars

\* line 52 (ha_client.py 76-87)
NewHAClient ==
    /\ pc = "ha_client"
    /\ IF token_present
       THEN pc' = "recognizer" /\ target_off_at' = 0
       ELSE pc' = "crashed" /\ UNCHANGED target_off_at
    /\ UNCHANGED <<running, now, loop_start, end_time, jpeg, ha_last, ha_binary>>
    /\ UNCHANGED <<evars, dvars, rvars>>
    /\ UNCHANGED xvars

\* PlateRecognizer.__init__ (113-122): whether the construction succeeds
Constructs(w, t) == w = "ok"

\* lines 53-55
NewRecognizer ==
    /\ pc = "recognizer"
    /\ pc' = IF Constructs(weights, tesseract_ok) THEN "init_sensors" ELSE "crashed"
    /\ UNCHANGED <<running, now, loop_start, end_time, jpeg>>
    /\ UNCHANGED <<evars, dvars, hvars, rvars>>
    /\ UNCHANGED xvars

\* line 58 (init_sensors, 190-208)
InitSensors ==
    /\ pc = "init_sensors"
    /\ ha_last' \in Delivered(ha_last, Unknown)
    /\ ha_binary' \in Delivered(ha_binary, "off")
    /\ ha_calls' = <<Post(LastPlateUrl, Unknown), Post(BinaryUrl, <<"off">>)>>
    /\ pc' = "loop"
    /\ UNCHANGED <<running, now, loop_start, end_time, jpeg, target_off_at>>
    /\ UNCHANGED <<evars, dvars, rvars>>
    /\ UNCHANGED <<nvars, http_log, pending_since>>
    /\ UNCHANGED svars

\* lines 63-64 and 113: the head of the scan loop
LoopHead ==
    /\ pc = "loop"
    /\ IF running
       THEN pc' = "snapshot" /\ loop_start' = now
       ELSE pc' = "stopped" /\ UNCHANGED loop_start
    /\ end_time' = 0
    /\ jpeg' = "none"
    /\ ha_calls' = <<>>
    /\ UNCHANGED <<running, now>>
    /\ UNCHANGED <<evars, dvars, hvars, rvars>>
    /\ UNCHANGED <<nvars, http_log, pending_since>>
    /\ UNCHANGED svars

\* ha_client.py 110-111: what requests.get and raise_for_status give for the
\* still image: a response with a body, or an exception (HTTPError carries
\* the response, ConnectionError and Timeout carry none: status 0)
StillOutcomes ==
    { [exc |-> "none", status |-> 200, body |-> "valid"],
      [exc |-> "none", status |-> 200, body |-> "corrupt"],
      [exc |-> "HTTPError", status |-> 404, body |-> "none"],
      [exc |-> "HTTPError", status |-> 500, body |-> "none"],
      [exc |-> "ConnectionError", status |-> 0, body |-> "none"],
      [exc |-> "Timeout", status |-> 0, body |-> "none"] }

\* ha_client.py 147-154: the same for the stream; body is what
\* _first_jpeg_from_mjpeg_stream returns, and ChunkedEncodingError is
\* raised by iter_content while it reads
StreamOutcomes ==
    { [exc |-> "none", status |-> 200, body |-> "valid"],
      [exc |-> "none", status |-> 200, body |-> "corrupt"],
      [exc |-> "none", status |-> 200, body |-> "none"],
      [exc |-> "HTTPError", status |-> 500, body |-> "none"],
      [exc |-> "ConnectionError", status |-> 0, body |-> "none"],
      [exc |-> "ChunkedEncodingError", status |-> 200, body |-> "none"] }

\* one request as http_log keeps it
Request(url, o) == [url |-> url, exc |-> o.exc, status |-> o.status]
StillUrl == "camera_proxy"
StreamUrl == "camera_proxy_stream"

\* (variant: any error status sends the client to the stream)
Got4xxOr5xx(e) == e.status >= 400
\* ha_client.py 114-117: got_5xx
Got5xx(e) == e.status /= 0 /\ e.status >= 500

\* lines 113 and 155: except requests.RequestException
RequestExceptions ==
    {"HTTPError", "ConnectionError", "Timeout", "ChunkedEncodingError"}

\* _get_snapshot_from_stream (143-157): the frame, or None on an exception
\* that is caught; raised names the exception that leaves the call
GetSnapshotFromStream(o) ==
    [ret |-> IF o.exc = "none" THEN o.body ELSE "none",
     raised |-> IF o.exc \in RequestExceptions THEN "none" ELSE o.exc,
     log |-> <<Request(StreamUrl, o)>>]

\* get_camera_snapshot (91-141)
GetCameraSnapshot(still, stream) ==
    IF still.exc = "none"
    THEN [ret |-> still.body, raised |-> "none",
          log |-> <<Request(StillUrl, still)>>]
    ELSE IF still.exc \notin RequestExceptions
    THEN [ret |-> "none", raised |-> still.exc,
          log |-> <<Request(StillUrl, still)>>]
    ELSE IF Got5xx(still)
    THEN LET r == GetSnapshotFromStream(stream)
         IN [ret |-> r.ret, raised |-> r.raised,
             log |-> <<Request(StillUrl, still)>> \o r.log]
    ELSE [ret |-> "none", raised |-> "none",
          log |-> <<Request(StillUrl, still)>>]

\* lines 67-74: the snapshot request, which takes no time or one increment
Snapshot ==
    /\ pc = "snapshot"
    /\ \E still \in StillOutcomes : \E stream \in StreamOutcomes :
          LET r == GetCameraSnapshot(still, stream)
          IN /\ jpeg' = r.ret
             /\ http_log' = r.log
             /\ pc' = IF r.raised /= "none" THEN "crashed"
                      ELSE IF r.ret = "none" THEN "fail_sleep" ELSE "decode"
    /\ \E t \in {now, now + 1} : t <= MaxTime /\ now' = t
    /\ UNCHANGED <<running, loop_start, end_time>>
    /\ UNCHANGED <<evars, dvars, hvars, rvars>>
    /\ UNCHANGED <<nvars, ha_calls, pending_since>>
    /\ UNCHANGED svars

\* (variant: any bytes taken for a frame)
JpegToFrameAlways(jpeg_bytes) == "frame"
\* jpeg_to_frame (28-32): imdecode gives None for bytes that are no image
JpegToFrame(jpeg_bytes) == IF jpeg_bytes = "valid" THEN "frame" ELSE "none"

\* lines 77-81
Decode ==
    /\ pc = "decode"
    /\ IF JpegToFrame(jpeg) /= "none"
       THEN pc' = "detect" /\ di' = 0
       ELSE pc' = "fail_sleep" /\ UNCHANGED di
    /\ http_log' = <<>>
    /\ UNCHANGED <<running, now, loop_start, end_time, jpeg, cands, plates, ri>>
    /\ UNCHANGED <<evars, hvars, rvars>>
    /\ UNCHANGED <<nvars, ha_calls, pending_since>>
    /\ UNCHANGED svars

\* lines 73 and 80: time.sleep(config.scan_interval), then continue
FailSleep ==
    /\ pc = "fail_sleep"
    /\ now + ScanInterval <= MaxTime
    /\ now' = now + ScanInterval
    /\ pc' = "loop"
    /\ http_log' = <<>>
    /\ UNCHANGED <<running, loop_start, end_time, jpeg>>
    /\ UNCHANGED <<evars, dvars, hvars, rvars>>
    /\ UNCHANGED <<nvars, ha_calls, pending_since>>
    /\ UNCHANGED svars

\* (variant: every plate taken for a target)
IsTargetAlways(plate_text) == TRUE
\* main.py line 89: plate_text in config.target_plates
IsTarget(plate_text) == plate_text \in TargetPlates

\* lines 87-101 with report_plate (210-245): one plate reported
Report ==
    /\ pc = "report" /\ ri <= Len(plates)
    /\ LET plate_text == plates[ri].plate
           is_target == IsTarget(plate_text)
       IN /\ ha_last' \in Delivered(ha_last, plate_text)
          /\ IF is_target
             THEN /\ target_off_at' = now + TargetTimeout
                  /\ ha_binary' \in Delivered(ha_binary, "on")
                  /\ ha_calls' = << Post(LastPlateUrl, plate_text),
                                    Post(BinaryUrl, <<"on">>),
                                    Post(EventUrl, plate_text) >>
             ELSE /\ ha_calls' = << Post(LastPlateUrl, plate_text),
                                    Post(EventUrl, plate_text) >>
                  /\ UNCHANGED <<target_off_at, ha_binary>>
          /\ pending_since' = IF plate_text \in TargetPlates
                              THEN now ELSE pending_since
    /\ ri' = ri + 1
    /\ UNCHANGED <<pc, running, now, loop_start, end_time, jpeg, cands, di, plates>>
    /\ UNCHANGED <<evars, rvars>>
    /\ UNCHANGED <<nvars, http_log>>
    /\ UNCHANGED svars

\* (variant: the update is sent at the deadline itself)
TimeoutExpiredAtDeadline(off_at, t) == off_at > 0 /\ t >= off_at
\* ha_client.py line 249: a deadline is set and has passed
TimeoutExpired(off_at, t) == off_at > 0 /\ t > off_at

\* lines 104-109 with check_target_timeout (247-260)
CheckTimeout ==
    /\ pc = "report" /\ ri > Len(plates)
    /\ IF TimeoutExpired(target_off_at, now)
       THEN /\ target_off_at' = 0
            /\ ha_binary' \in Delivered(ha_binary, "off")
            /\ ha_calls' = <<Post(BinaryUrl, <<"off">>)>>
            /\ pending_since' = -1
       ELSE /\ ha_calls' = <<>>
            /\ UNCHANGED <<target_off_at, ha_binary, pending_since>>
    /\ end_time' = now + Max(0, ScanInterval - (now - loop_start))
    /\ pc' = "sleep"
    /\ plates' = <<>>
    /\ ri' = 1
    /\ UNCHANGED <<running, now, loop_start, jpeg, cands, di, ha_last>>
    /\ UNCHANGED <<evars, rvars>>
    /\ UNCHANGED <<nvars, http_log>>
    /\ UNCHANGED svars

\* (variant: the sleep runs to end_time whatever running is)
KeepsSleepingToTheEnd(r, t, e) == t < e
\* line 110: while running and time.time() < end_time
KeepsSleeping(r, t, e) == r /\ t < e

\* line 110: the condition of the sleep loop is evaluated
SleepStep ==
    /\ pc = "sleep"
    /\ pc' = IF KeepsSleeping(running, now, end_time) THEN "sleeping" ELSE "loop"
    /\ UNCHANGED <<running, now, loop_start, end_time, jpeg>>
    /\ UNCHANGED <<evars, dvars, hvars, rvars>>
    /\ UNCHANGED xvars

\* line 111: time.sleep(0.5), one increment; a signal that arrives during
\* it is handled and the sleep goes on to its end
SleepIncrement ==
    /\ pc = "sleeping"
    /\ now + 1 <= MaxTime
    /\ now' = now + 1
    /\ pc' = "sleep"
    /\ UNCHANGED <<running, loop_start, end_time, jpeg>>
    /\ UNCHANGED <<evars, dvars, hvars, rvars>>
    /\ UNCHANGED xvars

\* lines 18-25: SIGTERM or SIGINT
Shutdown ==
    /\ running
    /\ pc \notin {"stopped", "crashed"}
    /\ running' = FALSE
    /\ UNCHANGED <<pc, now, loop_start, end_time, jpeg>>
    /\ UNCHANGED <<evars, dvars, hvars, rvars>>
    /\ UNCHANGED xvars

Init ==
    /\ pc = "config"
    /\ running = TRUE
    /\ options_exists \in BOOLEAN
    /\ token_present \in BOOLEAN
    /\ weights \in {"missing", "unreadable", "ok"}
    /\ tesseract_ok \in BOOLEAN
    /\ now = 0 /\ loop_start = 0 /\ end_time = 0
    /\ jpeg = "none"
    /\ cands = <<>> /\ di = 0 /\ plates = <<>> /\ ri = 1
    /\ target_off_at = 0
    /\ ha_last = Unknown /\ ha_binary = "unknown"
    /\ frame_w = FrameW /\ frame_h = FrameH
    /\ box = <<0, 0, 0, 0>>
    /\ rpc = "idle"
    /\ strat = 1
    /\ data = <<>>
    /\ best_text = NoneText
    /\ best_conf = Frac(0, 1)
    /\ best_src = "none"
    /\ result = NoReading
    /\ ocr_log = <<>>
    /\ XIdle

Next ==
    \/ LoadConfig \/ NewHAClient \/ NewRecognizer \/ InitSensors
    \/ LoopHead \/ Snapshot \/ Decode \/ FailSleep
    \/ DetectInfer \/ Crop \/ OcrCall(MainTables) \/ OcrRaise \/ Evaluate
    \/ DetectCollect \/ Propagate
    \/ Report \/ CheckTimeout \/ SleepStep \/ SleepIncrement
    \/ Shutdown

Spec == Init /\ [][Next]_vars

\* the steps of main itself, the signal handler left out
MainStep ==
    \/ LoadConfig \/ NewHAClient \/ NewRecognizer \/ InitSensors
    \/ LoopHead \/ Snapshot \/ Decode \/ FailSleep
    \/ DetectInfer \/ Crop \/ OcrCall(MainTables) \/ OcrRaise \/ Evaluate
    \/ DetectCollect \/ Propagate
    \/ Report \/ CheckTimeout \/ SleepStep \/ SleepIncrement

\* ------------------------------------------- the raw outputs drawn
\* x * scale + pad for a pixel x of the frame, in units. The cell of the
\* output tensor holds a neighbour of that value: here the even number of
\* units just below it (dir = 0) or just above it (dir = 1).
Forward(x, pad, scale, dir) ==
    LET n == x * scale.n * SubPx + pad * SubPx * scale.d
        d == 2 * scale.d
    IN IF n % d = 0 THEN 2 * (n \div d) ELSE 2 * ((n \div d) + dir)

\* the box b of the frame as the network reports it: centre, width, height
ForwardBox(b, lb, dir) ==
    << Forward(b[1], lb.pad_x, lb.scale, dir),
       Forward(b[2], lb.pad_y, lb.scale, dir),
       Forward(b[3], lb.pad_x, lb.scale, dir),
       Forward(b[4], lb.pad_y, lb.scale, dir) >>

RawRow(b, lb, dir, sc) ==
    LET f == ForwardBox(b, lb, dir)
    IN <<(f[1] + f[3]) \div 2, (f[2] + f[4]) \div 2, f[3] - f[1], f[4] - f[2]>>
         \o sc

\* boxes of a w x h frame: two that overlap, a small one, one above the
\* image in the padding, one reaching over the right edge
SrcBoxes(w, h) ==
    { <<1, 1, w, h>>, <<2, 1, w, h>>, <<0, 0, 1, 1>>,
      <<0, -2, w, -1>>, <<w - 1, 1, w + 2, h>> }

\* the score columns of a row: one column, or two
OneScore == { <<40>>, <<50>>, <<60>>, <<90>> }
TwoScores == { <<90, 10>>, <<10, 90>> }

RawRows(w, h, dir, cols) ==
    { RawRow(b, Letterbox(w, h), dir, sc) : b \in SrcBoxes(w, h), sc \in cols }

RawOutputs(w, h) ==
    UNION { UNION { [1..k -> RawRows(w, h, dir, cols)] : k \in 0..MaxRows } :
              dir \in {0, 1}, cols \in {OneScore, TwoScores} }

\* a landscape frame smaller than the network input, a portrait one larger
Frames == { <<FrameW, FrameH>>, <<1080, 1920>> }

\* the OCR table every crop gives in the runs of detect alone
DetTables == { <<Row(TxtPlate, 90)>> }

\* ------------------------------------------------ detect, step by step
\* lines 126-139: letterbox, inference, the rows of the output
DetectForward ==
    /\ pc = "d_infer"
    /\ out' \in RawOutputs(frame_w, frame_h)
    /\ pc' = "d_filter"
    /\ UNCHANGED <<boxes_xywh, scores, xyxy_640, indices>>
    /\ UNCHANGED <<running, now, loop_start, end_time, jpeg>>
    /\ UNCHANGED <<evars, dvars, hvars, rvars>>
    /\ UNCHANGED <<gvars, svars>>

\* lines 140-150: the score filter; return [] when no row is kept
DetectFilter ==
    /\ pc = "d_filter"
    /\ LET kept == FilterRows(out, ConfidenceThreshold)
       IN /\ boxes_xywh' = [i \in 1..Len(kept) |-> RowXywh(kept[i])]
          /\ scores' = [i \in 1..Len(kept) |-> RowScore(kept[i])]
          /\ IF kept = <<>>
             THEN pc' = "report" /\ plates' = <<>> /\ ri' = 1
             ELSE pc' = "d_nms" /\ UNCHANGED <<plates, ri>>
    /\ UNCHANGED <<out, xyxy_640, indices, cands, di>>
    /\ UNCHANGED <<running, now, loop_start, end_time, jpeg>>
    /\ UNCHANGED <<evars, hvars, rvars>>
    /\ UNCHANGED <<gvars, svars>>

\* lines 152-165: corner form and NMSBoxes. "for xc, yc, w, h in boxes_xywh"
\* raises ValueError on an entry that is not four numbers long; nothing
\* catches it in detect or in main
DetectNms ==
    /\ pc = "d_nms"
    /\ IF \E i \in 1..Len(boxes_xywh) : Len(boxes_xywh[i]) /= 4
       THEN /\ pc' = "crashed"
            /\ UNCHANGED <<xyxy_640, indices>>
       ELSE /\ xyxy_640' = [i \in 1..Len(boxes_xywh) |->
                               Xywh2xyxy(boxes_xywh[i][1], boxes_xywh[i][2],
                                         boxes_xywh[i][3], boxes_xywh[i][4])]
            /\ indices' = NMSBoxes([i \in 1..Len(boxes_xywh) |->
                                       CornerForm(xyxy_640'[i])],
                                   scores, ConfidenceThreshold)
            /\ pc' = "d_map"
    /\ UNCHANGED <<out, boxes_xywh, scores>>
    /\ UNCHANGED <<running, now, loop_start, end_time, jpeg>>
    /\ UNCHANGED <<evars, dvars, hvars, rvars>>
    /\ UNCHANGED <<gvars, svars>>

\* lines 167-180: the boxes kept mapped back to the frame and clamped, and
\* the recognizer called on the first of them; return [] when none is kept
DetectMap ==
    /\ pc = "d_map"
    /\ cands' = [k \in 1..Len(indices) |->
                   [bbox |-> MapBox(xyxy_640[indices[k]],
                                    Letterbox(frame_w, frame_h)),
                    score |-> scores[indices[k]]]]
    /\ plates' = <<>>
    /\ IF indices = <<>>
       THEN pc' = "report" /\ ri' = 1 /\ UNCHANGED <<di, rvars>>
       ELSE /\ pc' = "detect"
            /\ di' = 1
            /\ CallRecognizer(cands'[1].bbox)
            /\ UNCHANGED ri
    /\ UNCHANGED nvars
    /\ UNCHANGED <<running, now, loop_start, end_time, jpeg>>
    /\ UNCHANGED <<evars, hvars>>
    /\ UNCHANGED <<gvars, svars>>

InitDetect ==
    /\ \E f \in Frames : frame_w = f[1] /\ frame_h = f[2]
    /\ box = <<0, 0, 0, 0>>
    /\ rpc = "idle"
    /\ strat = 1
    /\ data = <<>>
    /\ best_text = NoneText
    /\ best_conf = Frac(0, 1)
    /\ best_src = "none"
    /\ result = NoReading
    /\ ocr_log = <<>>
    /\ pc = "d_infer"
    /\ running = TRUE
    /\ options_exists = TRUE /\ token_present = TRUE
    /\ weights = "ok" /\ tesseract_ok = TRUE
    /\ now = 0 /\ loop_start = 0 /\ end_time = 0
    /\ jpeg = "valid"
    /\ cands = <<>> /\ di = 0 /\ plates = <<>> /\ ri = 1
    /\ target_off_at = 0
    /\ ha_last = Unknown /\ ha_binary = "off"
    /\ XIdle

NextDetect ==
    \/ DetectForward \/ DetectFilter \/ DetectNms \/ DetectMap
    \/ Crop \/ OcrCall(DetTables) \/ Evaluate \/ DetectCollect

SpecDetect == InitDetect /\ [][NextDetect]_vars

\* --------------------------------------- _first_jpeg_from_mjpeg_stream
\* A byte is a string naming it: "CR", "LF", a digit, a space, a sign, the
\* bytes "a" "b" "c" of an image; the fifteen bytes of "Content-Length:"
\* are one token, "CL:" as HA writes it or "cl:" in lower case, and "B" and
\* "T" stand for the boundary line and for another header line.
Terminator == <<"CR", "LF", "CR", "LF">>
LineEnd == <<"CR", "LF">>

\* bytes.find(pat): the index of the first occurrence, counted from 0, or -1
Find(b, pat) ==
    LET hits == {i \in 0..(Len(b) - Len(pat)) :
                    SubSeq(b, i + 1, i + Len(pat)) = pat}
    IN IF hits = {} THEN -1
       ELSE CHOOSE i \in hits : \A j \in hits : i <= j

\* bytes.split(b"\r\n")
RECURSIVE SplitLines(_)
SplitLines(b) ==
    LET i == Find(b, LineEnd)
    IN IF i = -1 THEN <<b>>
       ELSE <<SubSeq(b, 1, i)>> \o SplitLines(SubSeq(b, i + 3, Len(b)))

\* bytes.lower(), one byte
LowerByte(c) == IF c = "CL:" THEN "cl:" ELSE c

\* line 53: line.lower().startswith(b"content-length:")
IsContentLength(line) == line /= <<>> /\ LowerByte(line[1]) = "cl:"

DigitValue(c) ==
    CASE c = "0" -> 0 [] c = "1" -> 1 [] c = "2" -> 2 [] c = "3" -> 3
      [] c = "4" -> 4 [] c = "5" -> 5 [] c = "6" -> 6 [] c = "7" -> 7
      [] c = "8" -> 8 [] c = "9" -> 9 [] OTHER -> -1

RECURSIVE DigitsValue(_, _)
DigitsValue(t, acc) ==
    IF t = <<>> THEN acc
    ELSE DigitsValue(Tail(t), 10 * acc + DigitValue(Head(t)))

\* int(v.strip()) of line 55: [ok, value]; not ok stands for ValueError
ParseInt(v) ==
    LET t == Strip(v)
        signed == t /= <<>> /\ Head(t) \in {"-", "+"}
        digits == IF signed THEN Tail(t) ELSE t
    IN IF digits = <<>> \/ \E i \in 1..Len(digits) : DigitValue(digits[i]) = -1
       THEN [ok |-> FALSE, value |-> 0]
       ELSE [ok |-> TRUE,
             value |-> IF signed /\ Head(t) = "-"
                       THEN -DigitsValue(digits, 0)
                       ELSE DigitsValue(digits, 0)]

\* lines 52-58: content_length after the loop over the header lines; the
\* first Content-Length line decides, and a ValueError leaves the old value
HeaderLength(headers_block, old) ==
    LET lines == SplitLines(headers_block)
        found == {i \in 1..Len(lines) : IsContentLength(lines[i])}
    IN IF found = {} THEN old
       ELSE LET i == CHOOSE j \in found : \A k \in found : j <= k
                r == ParseInt(Tail(lines[i]))
            IN IF r.ok THEN r.value ELSE old

\* (variant: all that is buffered is returned)
FrameOfWholeBuffer(b, n) == b
\* line 65: buf[:content_length]
FrameOf(b, n) == SubSeq(b, 1, Min(n, Len(b)))

\* lines 63-68: state "body"; [ret |-> "go on"] stands for the next chunk
BodyStep(b, n) ==
    IF Len(b) >= n THEN [ret |-> "bytes", bytes |-> FrameOf(b, n)]
    ELSE IF Len(b) > BodyLimit THEN [ret |-> "none", bytes |-> <<>>]
    ELSE [ret |-> "go on", bytes |-> <<>>]

\* lines 41-69: one chunk that is not empty worked through
ChunkStep(b, st, n, chunk) ==
    LET b1 == b \o chunk
        idx == Find(b1, Terminator)
    IN IF st = "find_boundary" /\ idx = -1
       THEN [buf |-> IF Len(b1) > FindLimit
                     THEN SubSeq(b1, Len(b1) - FindKeep + 1, Len(b1))
                     ELSE b1,
             state |-> st, content_length |-> n,
             ret |-> "go on", bytes |-> <<>>]
       ELSE IF st = "find_boundary"
       THEN LET b2 == SubSeq(b1, idx + 5, Len(b1))
                n2 == HeaderLength(SubSeq(b1, 1, idx), n)
            IN IF n2 <= 0
               THEN [buf |-> b2, state |-> "body", content_length |-> n2,
                     ret |-> "none", bytes |-> <<>>]
               ELSE [buf |-> b2, state |-> "body", content_length |-> n2,
                     ret |-> BodyStep(b2, n2).ret,
                     bytes |-> BodyStep(b2, n2).bytes]
       ELSE [buf |-> b1, state |-> st, content_length |-> n,
             ret |-> BodyStep(b1, n).ret, bytes |-> BodyStep(b1, n).bytes]

\* line 23: re.search(r"boundary=(\S+)", content_type) finds a boundary
ContentTypes == {"multipart/x-mixed-replace;boundary=frame", "image/jpeg", ""}
HasBoundary(ct) == ct = "multipart/x-mixed-replace;boundary=frame"

\* the streams drawn: each a byte string, cut into chunks in every way
StreamBytes ==
    { <<"B", "CR", "LF", "CL:", " ", "2", "CR", "LF", "CR", "LF", "a", "b", "c">>,
      <<"cl:", "1", "CR", "LF", "CR", "LF", "a", "CR", "LF", "CR", "LF", "b">>,
      <<"B", "CR", "LF", "T", "CR", "LF", "CR", "LF", "a", "b">>,
      <<"CL:", "x", "CR", "LF", "CR", "LF", "a">>,
      <<"CL:", "-", "1", "CR", "LF", "CR", "LF", "a">>,
      <<"CL:", "3", "CR", "LF", "CR", "LF", "a">>,
      <<"CL:", "9", "CR", "LF", "CR", "LF", "a", "b", "c", "a">>,
      <<"T", "T", "T", "T", "T", "CR", "LF", "CL:", "1", "CR", "LF", "CR", "LF", "a">> }

\* w cut into k chunks, empty chunks among them
RECURSIVE Chunkings(_, _)
Chunkings(w, k) ==
    IF k = 1 THEN {<<w>>}
    ELSE UNION { { <<SubSeq(w, 1, i)>> \o rest :
                     rest \in Chunkings(SubSeq(w, i + 1, Len(w)), k - 1) } :
                 i \in 0..Len(w) }

Streams == UNION { Chunkings(w, MaxChunks) : w \in StreamBytes }

\* lines 21-33
StreamStart ==
    /\ fpc = "start"
    /\ IF HasBoundary(ctype)
       THEN /\ fpc' = "loop"
            /\ buf' = <<>>
            /\ state' = "find_boundary"
            /\ content_length' = 0
            /\ UNCHANGED fret
       ELSE /\ fpc' = "returned"
            /\ fret' = NoneText
            /\ UNCHANGED <<buf, state, content_length>>
    /\ UNCHANGED <<ctype, chunks, ci, late>>
    /\ UNCHANGED <<rvars, pc, running, now, loop_start, end_time, jpeg>>
    /\ UNCHANGED <<evars, dvars, hvars, nvars, gvars>>

\* lines 35-69: the next chunk arrives, the deadline passed or not
StreamChunk ==
    /\ fpc = "loop"
    /\ ci < Len(chunks)
    /\ ci' = ci + 1
    /\ late' \in (IF late THEN {TRUE} ELSE {FALSE, TRUE})
    /\ IF late'
       THEN /\ fpc' = "returned"
            /\ fret' = NoneText
            /\ UNCHANGED <<buf, state, content_length>>
       ELSE IF chunks[ci + 1] = <<>>
       THEN UNCHANGED <<fpc, fret, buf, state, content_length>>
       ELSE LET r == ChunkStep(buf, state, content_length, chunks[ci + 1])
            IN /\ buf' = r.buf
               /\ state' = r.state
               /\ content_length' = r.content_length
               /\ fpc' = IF r.ret = "go on" THEN "loop" ELSE "returned"
               /\ fret' = IF r.ret = "bytes" THEN r.bytes ELSE NoneText
    /\ UNCHANGED <<ctype, chunks>>
    /\ UNCHANGED <<rvars, pc, running, now, loop_start, end_time, jpeg>>
    /\ UNCHANGED <<evars, dvars, hvars, nvars, gvars>>

\* line 70: the stream is over
StreamEnd ==
    /\ fpc = "loop"
    /\ ci = Len(chunks)
    /\ fpc' = "returned"
    /\ fret' = NoneText
    /\ UNCHANGED <<ctype, chunks, ci, late, buf, state, content_length>>
    /\ UNCHANGED <<rvars, pc, running, now, loop_start, end_time, jpeg>>
    /\ UNCHANGED <<evars, dvars, hvars, nvars, gvars>>

InitStream ==
    /\ ctype \in ContentTypes
    /\ chunks \in Streams
    /\ ci = 0 /\ late = FALSE
    /\ buf = <<>> /\ state = "find_boundary" /\ content_length = 0
    /\ fpc = "start" /\ fret = NoneText
    /\ frame_w = FrameW /\ frame_h = FrameH
    /\ box = <<0, 0, 0, 0>>
    /\ rpc = "idle"
    /\ strat = 1
    /\ data = <<>>
    /\ best_text = NoneText
    /\ best_conf = Frac(0, 1)
    /\ best_src = "none"
    /\ result = NoReading
    /\ ocr_log = <<>>
    /\ pc = "snapshot"
    /\ running = TRUE
    /\ options_exists = TRUE /\ token_present = TRUE
    /\ weights = "ok" /\ tesseract_ok = TRUE
    /\ now = 0 /\ loop_start = 0 /\ end_time = 0
    /\ jpeg = "none"
    /\ cands = <<>> /\ di = 0 /\ plates = <<>> /\ ri = 1
    /\ target_off_at = 0
    /\ ha_last = Unknown /\ ha_binary = "off"
    /\ out = <<>> /\ boxes_xywh = <<>> /\ scores = <<>>
    /\ xyxy_640 = <<>> /\ indices = <<>>
    /\ http_log = <<>> /\ ha_calls = <<>> /\ pending_since = -1

NextStream == StreamStart \/ StreamChunk \/ StreamEnd

SpecStream == InitStream /\ [][NextStream]_vars

\* ================================================================ claims
Threshold == Frac(OCR_CONFIDENCE_THRESHOLD, 1)
StrategyOrder == <<"otsu", "adaptive", "gray">>

\* the recognizer has returned a reading; data is the table it came from
Returned == rpc = "done" /\ result.text /= NoneText

\* the reading returned is candidate c
IsResult(c) == c.text = result.text /\ FracEQ(c.conf, result.conf)

\* C1: every record returned by detect carries a plate of exactly seven
\* characters, two letters, three digits, two letters, whether the reading
\* was one OCR fragment or the concatenation of the fragments.
C1_PlatesMatchGrammar ==
    \A i \in 1..Len(plates) : PlateGrammar(plates[i].plate)

\* two records of one frame: the first read from the concatenation of two
\* fragments (mean 0.925), the second from one fragment (0.9)
C1_Witness ==
    /\ Len(plates) = 2
    /\ plates[1].confidence = 925
    /\ plates[2].confidence = 900

\* C2: a reading returned by the recognizer never has a confidence below
\* the OCR threshold, be it a fragment's or the mean of the concatenation.
C2_ReadingAtLeastThreshold ==
    Returned => FracGE(result.conf, Threshold)

\* The strategies are called in the fixed order, and none is called after
\* a strategy whose table held an accepted candidate.
StrategyOrderKept ==
    /\ Len(ocr_log) <= Len(StrategyOrder)
    /\ \A i \in 1..Len(ocr_log) : ocr_log[i].strategy = StrategyOrder[i]
    /\ \A i \in 1..(Len(ocr_log) - 1) : ~ocr_log[i].accepted

\* C3: the strategies run in the order Otsu, adaptive, grayscale, and the
\* reading returned is a candidate of the first strategy whose table holds
\* an accepted candidate; no later strategy is run after it.
C3_FirstAcceptingStrategyWins ==
    /\ StrategyOrderKept
    /\ Returned =>
          /\ ocr_log[Len(ocr_log)].accepted
          /\ \E c \in Candidates(data) : IsResult(c)

\* No accepted candidate of the winning table beats the reading returned.
NoAcceptedBeatsResult ==
    Returned => \A c \in AcceptedCandidates(data) : ~FracGT(c.conf, result.conf)

\* C4: the reading returned is an accepted candidate of the winning
\* strategy, and no accepted candidate of that strategy has a strictly
\* higher confidence.
C4_HighestAcceptedWins ==
    /\ NoAcceptedBeatsResult
    /\ Returned => \E c \in AcceptedCandidates(data) : IsResult(c)

\* the concatenation and a single fragment are both accepted, with equal
\* confidence, in the table the reading came from
Tie ==
    /\ Returned
    /\ Accepted(ConcatCandidate(data))
    /\ \E c \in FragmentCandidates(data) :
          Accepted(c) /\ FracEQ(c.conf, Mean(data))

OnlyConcatMatches(d) ==
    /\ \A c \in FragmentCandidates(d) : ~PlateGrammar(c.text)
    /\ PlateGrammar(Concat(d))

\* C6: when no fragment matches the grammar alone and the concatenation
\* does, the strategy's reading is the concatenation with the mean of the
\* fragment confidences: returned whenever the mean reaches the threshold,
\* never anything else, and no reading when no row carries a confidence
\* (mean 0).
C6_ConcatenationWithMean ==
    [][ (rpc = "eval" /\ OnlyConcatMatches(data)) =>
          /\ FracGE(Mean(data), Threshold) =>
                /\ rpc' = "done"
                /\ result'.text = Concat(data)
                /\ FracEQ(result'.conf, Mean(data))
          /\ (rpc' = "done" /\ result'.text /= NoneText) =>
                /\ result'.text = Concat(data)
                /\ FracEQ(result'.conf, Mean(data))
          /\ ConfRows(data) = {} => result'.text = NoneText ]_vars

\* the table [("AB", 0.9), ("123CD", 0.95)] has given ("AB123CD", 0.925)
C6_Witness ==
    /\ rpc = "done"
    /\ data = <<Row(TxtHead, 90), Row(TxtTail, 95)>>
    /\ result.text = TxtPlate
    /\ FracEQ(result.conf, Frac(925, 10))

\* every strategy called so far gave a table with no candidate matching
\* the grammar
NoGrammarSoFar == \A i \in 1..Len(ocr_log) : ~ocr_log[i].grammar

\* the crop of the box is not empty
HasCrop ==
    LET m == RoiBounds(box, frame_w, frame_h) IN m[1] < m[3] /\ m[2] < m[4]

\* C7: when no candidate of any strategy matches the grammar, the
\* recognizer has tried the three strategies when it returns, it returns no
\* reading, and detect adds no record for the box.
C7_NoGrammarNoReading ==
    /\ [](rpc = "done" /\ HasCrop /\ NoGrammarSoFar =>
             /\ Len(ocr_log) = 3
             /\ \A i \in 1..3 : ocr_log[i].strategy = StrategyOrder[i]
             /\ result.text = NoneText)
    /\ [][(pc = "detect" /\ rpc = "done" /\ NoGrammarSoFar) =>
             plates' = plates]_vars

\* inside detect the recognizer has returned for a box with a crop, after
\* three tables none of which held a candidate matching the grammar
C7_Witness ==
    /\ pc = "detect" /\ rpc = "done" /\ HasCrop
    /\ Len(ocr_log) = 3 /\ NoGrammarSoFar
    /\ result.text = NoneText

\* C8: a box whose crop is empty after the margins and the clamping, such
\* as one with x1 = x2 or y1 = y2, gets no reading and no OCR call.
C8_EmptyCropNoOcr ==
    (~HasCrop \/ box[1] = box[3] \/ box[2] = box[4]) =>
        /\ rpc \in {"crop", "done"}
        /\ ocr_log = <<>>
        /\ result.text = NoneText

\* the recognizer has returned for a box with y1 = y2 and x1 < x2
C8_Witness ==
    /\ rpc = "done"
    /\ box[2] = box[4] /\ box[1] < box[3]
    /\ ocr_log = <<>>

\* C9: a failure of the OCR call ends the recognition of that region only:
\* it never ends the process.
C9_OcrFailureSkipsRegion ==
    pc = "crashed" => rpc /= "raised"

\* C10: with the weights missing or the OCR engine unavailable the
\* construction fails: the sensors are never initialised, the scan loop is
\* never entered and no detect call is served.
C10_StartupFailureIsFatal ==
    (weights /= "ok" \/ ~tesseract_ok) =>
        /\ pc \in {"config", "ha_client", "recognizer", "crashed"}
        /\ rpc = "idle"

\* the best score of a raw row: the maximum over its score columns
BestScore(row) ==
    CHOOSE m \in {row[j] : j \in 5..Len(row)} :
        \A j \in 5..Len(row) : row[j] <= m

AtLeastThreshold(row) == BestScore(row) >= ConfidenceThreshold

\* the rows the filter is to keep, and what it is to hand on
WantedRows == SelectSeq(out, AtLeastThreshold)

\* C11: once the filter has run, the rows it kept are the rows whose best
\* score is at least the detection threshold, whatever the number of score
\* columns; the run of detect does not end in an error; every record
\* returned has a yolo_confidence at or above the threshold.
C11_ScoreFilter ==
    /\ pc /= "crashed"
    /\ pc \notin {"d_infer", "d_filter"} =>
          /\ boxes_xywh = [i \in 1..Len(WantedRows) |->
                              SubSeq(WantedRows[i], 1, 4)]
          /\ scores = [i \in 1..Len(WantedRows) |-> BestScore(WantedRows[i])]
    /\ \A i \in 1..Len(plates) :
          plates[i].yolo_confidence >= 10 * ConfidenceThreshold

\* four integers inside the frame, in order
Clamped(b) ==
    /\ 0 <= b[1] /\ b[1] <= b[3] /\ b[3] <= frame_w
    /\ 0 <= b[2] /\ b[2] <= b[4] /\ b[4] <= frame_h

\* and a box of positive width and height
Proper(b) == Clamped(b) /\ b[1] < b[3] /\ b[2] < b[4]

\* C12 as stated: every box handed to the recognizer and every bbox of a
\* record has 0 <= x1 < x2 <= width and 0 <= y1 < y2 <= height.
C12_BoxesProper ==
    /\ \A i \in 1..Len(cands) : Proper(cands[i].bbox)
    /\ \A i \in 1..Len(plates) : Proper(plates[i].bbox)

\* C12, amended: every box handed to the recognizer lies inside the frame
\* with x1 <= x2 and y1 <= y2 (a box outside the image, or narrower than a
\* pixel, is clamped to no width or no height); every bbox of a record has
\* x1 < x2 and y1 < y2.
C12_BoxesClamped ==
    /\ \A i \in 1..Len(cands) : Clamped(cands[i].bbox)
    /\ pc = "detect" => box = cands[di].bbox
    /\ \A i \in 1..Len(plates) : Proper(plates[i].bbox)

\* a record has been returned for the first box, and the second box handed
\* to the recognizer has no height
C12_Witness ==
    /\ pc = "detect" /\ di = 2
    /\ Len(plates) = 1
    /\ box[2] = box[4] /\ box[1] < box[3]

\* the boxes and the scores that survived the suppression, in the order of
\* indices
SurvivorBoxes == [k \in 1..Len(indices) |-> CornerForm(xyxy_640[indices[k]])]
SurvivorScores == [k \in 1..Len(indices) |-> scores[indices[k]]]

\* C13: the suppression applied to the boxes that survived it, with the
\* same thresholds, keeps every one of them.
C13_NmsIdempotent ==
    LET again == NMSBoxes(SurvivorBoxes, SurvivorScores, ConfidenceThreshold)
    IN {again[k] : k \in 1..Len(again)} = 1..Len(indices)

\* of two boxes above the threshold one has been suppressed
C13_Witness ==
    /\ pc = "d_map"
    /\ Len(scores) = 2 /\ Len(indices) = 1
    /\ \A i \in 1..2 : scores[i] > ConfidenceThreshold

Within1(a, b) == a - b <= 1 /\ b - a <= 1

\* the boxes drawn that lie inside the image
InsideBoxes == {b \in SrcBoxes(frame_w, frame_h) : Proper(b)}

\* box k of cands is the image of box b of the frame, sent forward with
\* the rounding dir
CameFrom(k, b, dir) ==
    xyxy_640[indices[k]] = ForwardBox(b, Letterbox(frame_w, frame_h), dir)

\* C14: a coordinate of the frame sent forward with the letterbox
\* parameters and mapped back by detect comes back within one pixel, for
\* every column and row of the frame; and every box of the frame that went
\* through the network output, the corner form and the suppression comes
\* back within one pixel in each coordinate.
C14_LetterboxRoundTrip ==
    LET lb == Letterbox(frame_w, frame_h)
    IN /\ pc = "d_infer" =>
            \A dir \in {0, 1} :
               /\ \A x \in 0..frame_w :
                     Within1(Clamp(MapBack(Forward(x, lb.pad_x, lb.scale, dir),
                                           lb.pad_x, lb.scale), frame_w), x)
               /\ \A y \in 0..frame_h :
                     Within1(Clamp(MapBack(Forward(y, lb.pad_y, lb.scale, dir),
                                           lb.pad_y, lb.scale), frame_h), y)
       /\ pc = "detect" =>
            \A k \in 1..Len(cands) : \A b \in InsideBoxes : \A dir \in {0, 1} :
               CameFrom(k, b, dir) =>
                   \A j \in 1..4 : Within1(cands[k].bbox[j], b[j])

\* a box inside the image has come back one pixel off
C14_Witness ==
    /\ pc = "detect"
    /\ \E k \in 1..Len(cands) : \E b \in InsideBoxes : \E dir \in {0, 1} :
          CameFrom(k, b, dir) /\ cands[k].bbox /= b

\* a scan iteration ends: the loop is back at its head
IterationEnds == pc \in {"fail_sleep", "sleep"} /\ pc' = "loop"

\* the iteration at hand began after the deadline of a target report that
\* no "off" update has answered yet
Overdue ==
    pending_since >= 0 /\ loop_start > pending_since + TargetTimeout

\* C15: after a target report, and with no further one, the "off" update is
\* issued once the deadline has passed, also when the snapshots or the
\* decoding fail from then on: no scan iteration that began after the
\* deadline ends with the "off" update still not issued.
C15_OffIssuedAfterDeadline ==
    [][IterationEnds => ~Overdue]_vars

\* check_target_timeout sends the "off" update in this step
OffIssued ==
    /\ pc = "report" /\ pc' = "sleep"
    /\ \E k \in 1..Len(ha_calls') : ha_calls'[k] = Post(BinaryUrl, <<"off">>)

\* report_plate is called for a target plate in this step
TargetReported ==
    pc = "report" /\ ri' = ri + 1 /\ plates[ri].plate \in TargetPlates

\* C16: check_target_timeout sends the "off" update only when a target
\* report is still unanswered and the time is past that report's time plus
\* target_timeout, so that a second "off" needs a new report; each target
\* report sets the deadline to its own time plus target_timeout, never
\* earlier than the deadline before.
C16_OnForTimeoutAfterLastMatch ==
    /\ [][OffIssued => /\ pending_since >= 0
                       /\ now > pending_since + TargetTimeout
                       /\ target_off_at' = 0]_vars
    /\ [][TargetReported => /\ target_off_at' = now + TargetTimeout
                            /\ target_off_at' >= target_off_at]_vars
    /\ [](pending_since >= 0 =>
             target_off_at = pending_since + TargetTimeout)

\* the "off" update has been sent for a target report, the deadline cleared
C16_Witness ==
    /\ pc = "sleep"
    /\ ha_calls = <<Post(BinaryUrl, <<"off">>)>>
    /\ target_off_at = 0
    /\ now >= TargetTimeout + 1

\* get_camera_snapshot has just returned
SnapshotReturned == pc \in {"decode", "fail_sleep"} /\ http_log /= <<>>

\* C17: the still image is requested first; the stream is requested only
\* after the still image failed with a status of 500 or more, and not after
\* a connection error, a timeout or a 4xx; when the last request made
\* failed, or the stream gave no frame, the call returns None; no exception
\* ends the loop.
C17_StillFirstStreamOn5xx ==
    /\ [](/\ Len(http_log) <= 2
          /\ SnapshotReturned =>
                /\ http_log[1].url = StillUrl
                /\ Len(http_log) = 2 =>
                      /\ http_log[2].url = StreamUrl
                      /\ http_log[1].exc = "HTTPError"
                      /\ http_log[1].status >= 500
                /\ (http_log[1].exc /= "none"
                      /\ ~(http_log[1].exc = "HTTPError"
                             /\ http_log[1].status >= 500))
                      => Len(http_log) = 1 /\ jpeg = "none"
                /\ http_log[Len(http_log)].exc /= "none" => jpeg = "none")
    /\ [][pc = "snapshot" => pc' \in {"snapshot", "decode", "fail_sleep"}]_vars

\* the still image failed with 500, the stream failed too: None returned
C17_Witness ==
    /\ pc = "fail_sleep"
    /\ Len(http_log) = 2
    /\ http_log[1].status = 500
    /\ http_log[2].exc = "ChunkedEncodingError"
    /\ jpeg = "none"

\* the snapshot of the iteration at hand is absent or does not decode
NoFrame == jpeg \in {"none", "corrupt"}

PlateReported == pc = "report" /\ ri' = ri + 1

\* the POSTs of the step hold this one
Sends(call) == \E k \in 1..Len(ha_calls') : ha_calls'[k] = call

BinaryOn == Post(BinaryUrl, <<"on">>)

\* C19: report_plate sends the "on" update of the binary sensor and moves
\* the off-deadline exactly when the plate is one of the configured target
\* plates; for any other plate both stay as they were, while the last-plate
\* sensor is updated and the event fired all the same; and no other step of
\* the loop sends the "on" update.
C19_OnlyTargetsDriveBinary ==
    /\ [][PlateReported =>
            LET p == plates[ri].plate
            IN /\ Sends(Post(LastPlateUrl, p))
               /\ Sends(Post(EventUrl, p))
               /\ p \notin TargetPlates =>
                     /\ ~Sends(BinaryOn)
                     /\ UNCHANGED <<target_off_at, ha_binary>>
               /\ p \in TargetPlates =>
                     /\ Sends(BinaryOn)
                     /\ target_off_at' = now + TargetTimeout]_vars
    /\ [][(~PlateReported /\ ha_calls' /= ha_calls) => ~Sends(BinaryOn)]_vars
    /\ [][ha_binary' = "on" /\ ha_binary /= "on" =>
            PlateReported /\ plates[ri].plate \in TargetPlates]_vars

\* a plate that is no target has been reported while the binary sensor was
\* on with its deadline pending
C19_Witness ==
    /\ pc = "report" /\ ri = 3
    /\ plates[1].plate \in TargetPlates
    /\ plates[2].plate \notin TargetPlates
    /\ ha_binary = "on" /\ target_off_at > 0
    /\ ha_last = plates[2].plate

\* all the bytes of the stream, and those of its first k chunks
RECURSIVE Flatten(_)
Flatten(cs) == IF cs = <<>> THEN <<>> ELSE Head(cs) \o Flatten(Tail(cs))

Whole == Flatten(chunks)
TakenBytes(k) == Len(Flatten(SubSeq(chunks, 1, k)))

\* where the first header block ends in the stream (-1: nowhere), and the
\* Content-Length that header block states (0: none that is a number)
TermAt == Find(Whole, Terminator)
Declared ==
    IF TermAt = -1 THEN 0 ELSE HeaderLength(SubSeq(Whole, 1, TermAt), 0)

\* the bytes of the stream up to the end of the first frame
FrameEnd == TermAt + 4 + Declared

FrameReturned == fpc = "returned" /\ fret /= NoneText

\* C20: when bytes are returned they are the first Content-Length bytes
\* after the first header block terminator of the stream, returned on the
\* chunk that completes them, before the deadline; None is returned
\* without a boundary in the Content-Type, without a positive
\* Content-Length, once the deadline has passed, when the body buffer
\* exceeds the limit before the frame is complete, and when the stream ends
\* first; state "body" is never left.
C20_FirstFrameOnly ==
    /\ [](FrameReturned =>
            /\ HasBoundary(ctype) /\ ~late
            /\ TermAt /= -1 /\ Declared > 0
            /\ content_length = Declared
            /\ fret = SubSeq(Whole, TermAt + 5, FrameEnd)
            /\ TakenBytes(ci) >= FrameEnd
            /\ \A k \in 0..(ci - 1) : TakenBytes(k) < FrameEnd)
    /\ [](fpc = "returned" =>
            /\ ~HasBoundary(ctype) => fret = NoneText /\ ci = 0
            /\ late => fret = NoneText
            /\ (TermAt = -1 \/ Declared <= 0) => fret = NoneText
            /\ Len(Whole) < FrameEnd => fret = NoneText
            /\ (state = "body" /\ Len(buf) > BodyLimit
                  /\ Len(buf) < content_length) => fret = NoneText)
    /\ [][state = "body" => state' = "body"]_vars

\* the frame "a" "b" has been returned on a chunk that also held the byte
\* after it, with a chunk of the stream left unread
C20_Witness ==
    /\ FrameReturned
    /\ fret = <<"a", "b">>
    /\ Len(buf) > 2
    /\ ci < Len(chunks)

\* main has left the scan loop: by line 113, or by an exception
LoopLeft == pc \in {"stopped", "crashed"}

\* the time an iteration can still take from any of its positions: the
\* snapshot request and the sleep of a failure path
Headroom == 1 + ScanInterval

\* the steps _recognize_plate_tesseract has left at most
RecognizerSteps ==
    CASE rpc = "crop" -> 2 * Len(Preprocessed) + 1
      [] rpc = "ocr" -> 2 * (Len(Preprocessed) - strat) + 2
      [] rpc = "eval" -> 2 * (Len(Preprocessed) - strat) + 1
      [] OTHER -> 0

PerCandidate == 2 * Len(Preprocessed) + 2
PerPosition == (MaxBoxes + 2) * PerCandidate

\* the steps the position of main has left at most within itself
StepsHere ==
    CASE pc = "detect" /\ di = 0 -> (MaxBoxes + 1) * PerCandidate
      [] pc = "detect" /\ di > 0 ->
             (Len(cands) - di) * PerCandidate + RecognizerSteps
      [] pc = "report" -> Len(plates) - ri + 1
      [] OTHER -> 0

\* the positions of main in the order a stopping run passes them, last first
PositionsLeft ==
    CASE pc \in {"stopped", "crashed"} -> 0
      [] pc = "loop" -> 1
      [] pc = "fail_sleep" -> 2
      [] pc = "sleep" -> 3
      [] pc = "sleeping" -> 4
      [] pc = "report" -> 5
      [] pc = "detect" -> 6
      [] pc = "decode" -> 7
      [] pc = "snapshot" -> 8
      [] pc = "init_sensors" -> 9
      [] pc = "recognizer" -> 10
      [] pc = "ha_client" -> 11
      [] OTHER -> 12

\* a bound on the steps main still takes once running is False
StepsLeft == PositionsLeft * PerPosition + StepsHere

C22_OnHasPendingDeadline ==
    ha_binary = "on" => target_off_at > 0

====
